---- MODULE Spec2Model ----
(***************************************************************************)
(* Two-factor login flow, personnel routes, QR attendance scan and leave   *)
(* balance storage of the personnel tracking server                        *)
(* (src/server/auth.ts, src/server/storage.ts).                            *)
(*                                                                         *)
(* Every HTTP handler is split at its awaits: the code between two awaits  *)
(* runs atomically on the Node event loop, and a database statement takes  *)
(* effect atomically when the database executes it.  Each connection       *)
(* (cookie jar) has at most one request in flight.  The clock counts units *)
(* of five minutes.                                                        *)
(***************************************************************************)
EXTENDS Integers, Sequences, FiniteSets, TLC

VARIABLES
    users,      \* the users table: id -> row
    sess,       \* per connection: the user id serialized in the session, or NoUser
    now,        \* the wall clock, in units of five minutes
    pc,         \* per connection: where its in-flight handler stands
    loc,        \* per connection: request body and the handler's locals
    out,        \* the response sent by the step just taken, or NoResponse
    sms,        \* the text message delivered by the step just taken, or NoSms
    audit       \* history: passwordOk, codeOk: the users whose password, code check
                \* has succeeded; registered: <<connection, user>> of each registration;
                \* consumed: <<user, code>> verified with no login since;
                \* secret: <<user, password>> as chosen at registration;
                \* loggedOut: the connections whose session was ended by /api/logout
                \* and has not been established again;
                \* passwordBy: <<connection, user>> of each password check passed
VARIABLES
    personnel,  \* the personnel table: id -> row
    attendance, \* the attendance table: id -> row
    balances    \* the personnel_leave_balances table: id -> row

\* the tables the authentication handlers never touch
tables == <<personnel, attendance, balances>>

vars == <<users, sess, now, pc, loc, out, sms, audit, personnel, attendance, balances>>

-----------------------------------------------------------------------------
(* Bounds of the model *)

MaxTime == 2        \* the clock stops here

(* Program constants *)

TwoFactorWindow == 1    \* 5 * 60 * 1000 ms: one clock unit

-----------------------------------------------------------------------------
(* Value spaces *)

Conns == {"a", "b"}
Ids == {"u1", "u2", "u3", "u4"}
Phones == {"5551", "5552", "5553"}
Passwords == {"pw1", "pw2"}
Salts == {"s1"}

Null == "null"          \* SQL NULL / JS null of a text column
NoTime == -1            \* SQL NULL / JS null of a timestamp column
NoUser == "none"        \* no passport user in the session
Missing == ""           \* a body field that is absent (falsy)

(* Response message bodies (transliterated to ASCII) *)
MsgRegisterMissing == "Telefon, sifre ve ad alanlari zorunludur"
MsgPhoneTaken == "Bu telefon numarasi zaten kullaniliyor"
MsgBadCredentials == "Telefon numarasi veya sifre hatali"
MsgLoginFailed == "Giris basarisiz"
MsgCodeSent == "Dogrulama kodu telefon numaraniza gonderildi"
MsgVerifyMissing == "Kullanici ID ve dogrulama kodu gerekli"
MsgUserNotFound == "Kullanici bulunamadi"
MsgNoPendingCode == "Dogrulama kodu bulunamadi"
MsgCodeExpired == "Dogrulama kodu suresi dolmus"
MsgCodeWrong == "Dogrulama kodu hatali"
MsgLoginRequired == "Oturum acmaniz gerekiyor"
MsgPersonNotFound == "Personel bulunamadi"
MsgPersonForbidden == "Bu personeli gorme yetkiniz bulunmamaktadir"
MsgOtherBranch == "Baska subeye personel ekleyemezsiniz"
MsgEditForbidden == "Bu personeli duzenleme yetkiniz bulunmamaktadir"
MsgInvalidBody == "Personel olusturulurken hata olustu"
MsgQrMissing == "QR kod gerekli"
MsgQrUnknown == "Gecersiz QR kod - Personel bulunamadi"
MsgScanComplete == "Personel zaten giris ve cikis kaydi tamamlamis"
MsgNone == ""

-----------------------------------------------------------------------------
(* Pure functions *)

\* scrypt(password, salt, 64): a deterministic, injective digest
scrypt(password, salt) == <<password, salt>>

\* `${buf.toString("hex")}.${salt}`
hashPassword(password, salt) == [hashed |-> scrypt(password, salt), salt |-> salt]

\* stored.split("."), scrypt of the supplied password, timingSafeEqual
comparePasswords(supplied, stored) == scrypt(supplied, stored.salt) = stored.hashed

\* the values Math.random() is drawn from, as fractions <<numerator, denominator>> in [0, 1)
RandomDraws == {<<0, 2>>, <<1, 2>>}

\* Math.floor(a * Math.random()) for Math.random() = r[1] / r[2], in 32-bit arithmetic:
\* a = q * r[2] + m gives a * r[1] / r[2] = q * r[1] + m * r[1] / r[2]
FloorOfProduct(a, r) == (a \div r[2]) * r[1] + ((a % r[2]) * r[1]) \div r[2]

\* variant: the offset is a digit short
generateTwoFactorCodeShortOffset(r) == ToString(10000 + FloorOfProduct(900000, r))

\* Math.floor(100000 + Math.random() * 900000).toString(); the offset is an integer,
\* so the floor of the sum is the offset plus the floor of the product
generateTwoFactorCode(r) == ToString(100000 + FloorOfProduct(900000, r))

GeneratedCodes == {generateTwoFactorCode(r) : r \in RandomDraws}

\* the codes a client may submit
SubmittedCodes == GeneratedCodes

\* result.startsWith('00') || result.startsWith('01')
GatewayAccepted(result) == result \in {"00", "01"}

\* the outcomes of the gateway call: a success code, an error code, a network error
GatewayResults == {"00", "30", "neterr"}

\* the bodies posted to /api/register: a taken phone, a free one, each field missing
RegisterBodies ==
    {<<"5551", "pw2", "Test User">>, <<"5553", "pw2", "Test User">>,
     <<Missing, "pw2", "Test User">>, <<"5553", Missing, "Test User">>,
     <<"5553", "pw2", Missing>>}

\* the bodies posted to /api/verify-2fa: every id with every code, each field missing
VerifyBodies ==
    (Ids \X SubmittedCodes) \cup {<<Missing, "100000">>, <<"u1", Missing>>}

-----------------------------------------------------------------------------
(* Storage layer *)

\* db.select().from(users).where(eq(users.id, id)): <<row>> or <<>>
getUser(id) == IF id \in DOMAIN users THEN <<users[id]>> ELSE <<>>

\* db.select().from(users).where(eq(users.phone, phone)): <<row>> or <<>>
getUserByPhone(phone) ==
    LET hit == {id \in DOMAIN users : users[id].phone = phone}
    IN  IF hit = {} THEN <<>> ELSE getUser(CHOOSE id \in hit : TRUE)

\* gen_random_uuid(): an id no row has
FreshId == CHOOSE id \in Ids : id \notin DOMAIN users

\* role: role || 'branch_admin' and branchId of a /api/register body that names neither
BodyRole == "branch_admin"
BodyBranchId == Null

\* db.insert(users).values(insertUser): twoFactorCode and twoFactorExpiry default to NULL
createUser(id, phone, password, isActive) ==
    [i \in DOMAIN users \cup {id} |->
        IF i = id
        THEN [id |-> id, phone |-> phone, password |-> password,
              role |-> BodyRole, branchId |-> BodyBranchId, isActive |-> isActive,
              twoFactorCode |-> Null, twoFactorExpiry |-> NoTime]
        ELSE users[i]]

\* db.update(users).set({twoFactorCode, twoFactorExpiry}).where(eq(users.id, id))
updateUser(id, code, expiry) ==
    IF id \in DOMAIN users
    THEN [users EXCEPT ![id].twoFactorCode = code, ![id].twoFactorExpiry = expiry]
    ELSE users

-----------------------------------------------------------------------------
(* Requests, responses *)

NoLocals ==
    [phone |-> Missing, password |-> Missing, name |-> Missing,
     userId |-> Missing, code |-> Missing,
     user |-> <<>>, twoFactorCode |-> Null, twoFactorExpiry |-> NoTime,
     at |-> NoTime, smsReturned |-> FALSE, smsSuccess |-> FALSE, afterSuccess |-> FALSE,
     target |-> Missing, updates |-> <<>>, found |-> <<>>, record |-> <<>>]

\* a response: who gets it, what it says, and the request it answers
\* (rows: the records of a JSON body; action: the action field of a scan answer)
Response(c, op, status, message, userId, requiresTwoFactor) ==
    [conn |-> c, op |-> op, status |-> status, message |-> message,
     userId |-> userId, requiresTwoFactor |-> requiresTwoFactor, req |-> loc[c],
     rows |-> {}, action |-> Missing]

NoResponse ==
    [conn |-> "none", op |-> "none", status |-> 0, message |-> MsgNone,
     userId |-> NoUser, requiresTwoFactor |-> FALSE, req |-> NoLocals,
     rows |-> {}, action |-> Missing]

\* res.status(s).json(...) ends the handler of connection c
Reply(c, r) ==
    /\ out' = r
    /\ pc' = [pc EXCEPT ![c] = "idle"]
    /\ loc' = [loc EXCEPT ![c] = NoLocals]

\* the handler of connection c goes on to its next await with locals l
Goto(c, label, l) ==
    /\ out' = NoResponse
    /\ pc' = [pc EXCEPT ![c] = label]
    /\ loc' = [loc EXCEPT ![c] = l]

NoSms == [phone |-> Missing, code |-> Null]

\* the users row a handler holds in its locals
Row(r) == r.user[1]

\* the rows of the personnel table when the server starts
SeededPersonnel ==
    [p \in {"p1", "p2"} |->
        [id |-> p,
         firstName |-> IF p = "p1" THEN "ali" ELSE "ayse",
         lastName |-> "kaya",
         branchId |-> IF p = "p1" THEN "b1" ELSE "b2",
         isActive |-> TRUE]]

\* The server starts on a database that already holds two users, both branch admins of
\* branch b1 with password "pw1": u1 is active, u2 has been deactivated (is_active =
\* false).  No session exists, no code is pending, no request is in flight.  Branch b1
\* employs p1 and branch b2 employs p2; nobody has scanned in yet and no leave balance
\* has been entered.
Init ==
    /\ users = [i \in {"u1", "u2"} |->
                    [id |-> i,
                     phone |-> IF i = "u1" THEN "5551" ELSE "5552",
                     password |-> hashPassword("pw1", "s1"),
                     role |-> "branch_admin",
                     branchId |-> "b1",
                     isActive |-> (i = "u1"),
                     twoFactorCode |-> Null,
                     twoFactorExpiry |-> NoTime]]
    /\ sess = [c \in Conns |-> NoUser]
    /\ now = 0
    /\ pc = [c \in Conns |-> "idle"]
    /\ loc = [c \in Conns |-> NoLocals]
    /\ out = NoResponse
    /\ sms = NoSms
    /\ audit = [passwordOk |-> {}, codeOk |-> {}, registered |-> {}, consumed |-> {},
                secret |-> {<<"u1", "pw1">>, <<"u2", "pw1">>}, loggedOut |-> {},
                passwordBy |-> {}]
    /\ personnel = SeededPersonnel
    /\ attendance = <<>>
    /\ balances = <<>>

\* the clock advances
Tick ==
    /\ now < MaxTime
    /\ now' = now + 1
    /\ out' = NoResponse
    /\ UNCHANGED <<users, sess, pc, loc, audit>>
    /\ sms' = NoSms
    /\ UNCHANGED tables

-----------------------------------------------------------------------------
(* POST /api/register *)

\* validation, then the lookup of the phone number
RegisterBegin(c, phone, password, name) ==
    /\ pc[c] = "idle"
    /\ LET body == [NoLocals EXCEPT !.phone = phone, !.password = password, !.name = name]
       IN  IF phone = Missing \/ password = Missing \/ name = Missing
           THEN /\ out' = [Response(c, "register", 400, MsgRegisterMissing, NoUser, FALSE)
                               EXCEPT !.req = body]
                /\ UNCHANGED <<pc, loc>>
           ELSE Goto(c, "register_create", [body EXCEPT !.user = getUserByPhone(phone)])
    /\ UNCHANGED <<users, sess, now, audit>>
    /\ sms' = NoSms
    /\ UNCHANGED tables

\* variant: the phone column carries no UNIQUE constraint
RegisterCreateNoUnique(c, salt) ==
    /\ pc[c] = "register_create"
    /\ IF loc[c].user # <<>>
       THEN /\ Reply(c, Response(c, "register", 400, MsgPhoneTaken, NoUser, FALSE))
            /\ UNCHANGED <<users, audit>>
       ELSE LET id == FreshId
                created == createUser(id, loc[c].phone,
                                      hashPassword(loc[c].password, salt), TRUE)
            IN  /\ users' = created
                /\ audit' = [audit EXCEPT !.registered = @ \cup {<<c, id>>},
                                          !.secret = @ \cup {<<id, loc[c].password>>}]
                /\ Goto(c, "register_establish", [loc[c] EXCEPT !.user = <<created[id]>>])
    /\ UNCHANGED <<sess, now>>
    /\ sms' = NoSms
    /\ UNCHANGED tables

\* the duplicate check on the row read, then the insert; users.phone is UNIQUE
RegisterCreate(c, salt) ==
    /\ pc[c] = "register_create"
    /\ IF loc[c].user # <<>>
       THEN /\ Reply(c, Response(c, "register", 400, MsgPhoneTaken, NoUser, FALSE))
            /\ UNCHANGED <<users, audit>>
       ELSE IF getUserByPhone(loc[c].phone) # <<>>
       THEN /\ Reply(c, Response(c, "register", 500, MsgNone, NoUser, FALSE))
            /\ UNCHANGED <<users, audit>>
       ELSE LET id == FreshId
                created == createUser(id, loc[c].phone,
                                      hashPassword(loc[c].password, salt), TRUE)
            IN  /\ users' = created
                /\ audit' = [audit EXCEPT !.registered = @ \cup {<<c, id>>},
                                          !.secret = @ \cup {<<id, loc[c].password>>}]
                /\ Goto(c, "register_establish", [loc[c] EXCEPT !.user = <<created[id]>>])
    /\ UNCHANGED <<sess, now>>
    /\ sms' = NoSms
    /\ UNCHANGED tables

\* variant: the 201 response is sent without req.login
RegisterEstablishNoLogin(c) ==
    /\ pc[c] = "register_establish"
    /\ sess' = sess
    /\ Reply(c, Response(c, "register", 201, MsgNone, loc[c].user[1].id, FALSE))
    /\ audit' = [audit EXCEPT !.loggedOut = @ \ {c}]
    /\ UNCHANGED <<users, now>>
    /\ sms' = NoSms
    /\ UNCHANGED tables

\* req.login(user) and the 201 response
RegisterEstablish(c) ==
    /\ pc[c] = "register_establish"
    /\ sess' = [sess EXCEPT ![c] = loc[c].user[1].id]
    /\ Reply(c, Response(c, "register", 201, MsgNone, loc[c].user[1].id, FALSE))
    /\ audit' = [audit EXCEPT !.loggedOut = @ \ {c}]
    /\ UNCHANGED <<users, now>>
    /\ sms' = NoSms
    /\ UNCHANGED tables

-----------------------------------------------------------------------------
(* POST /api/login *)

\* variant: the isActive flag is not looked at
CredentialsValidIgnoresActive(user, password) ==
    ~ (user = <<>> \/ ~ comparePasswords(password, user[1].password))

\* the verify callback of the local strategy
CredentialsValid(user, password) ==
    ~ (user = <<>> \/ ~ user[1].isActive \/ ~ comparePasswords(password, user[1].password))

\* new Date(Date.now() + 5 * 60 * 1000)
ExpiryFrom(t) == t + TwoFactorWindow

\* variant: an unknown phone number gets a message of its own
DenialMessageByCause(user) ==
    IF user = <<>> THEN MsgLoginFailed ELSE MsgBadCredentials

\* done(null, false, {message}) in the strategy, info?.message || fallback in the handler
DenialMessage(user) ==
    LET info == MsgBadCredentials
    IN  IF info # Missing THEN info ELSE MsgLoginFailed

\* the strategy looks the user up by phone (it is reached with both fields present)
LoginBegin(c, phone, password) ==
    /\ pc[c] = "idle"
    /\ Goto(c, "login_check", [NoLocals EXCEPT !.phone = phone, !.password = password,
                                               !.user = getUserByPhone(phone)])
    /\ UNCHANGED <<users, sess, now, audit>>
    /\ sms' = NoSms
    /\ UNCHANGED tables

\* variant: a denied attempt withdraws the code pending for the user
LoginCheckClearsOnDenial(c, r) ==
    /\ pc[c] = "login_check"
    /\ IF ~ CredentialsValid(loc[c].user, loc[c].password)
       THEN /\ Reply(c, Response(c, "login", 401, DenialMessage(loc[c].user), NoUser, FALSE))
            /\ users' = IF loc[c].user = <<>> THEN users
                        ELSE updateUser(loc[c].user[1].id, Null, NoTime)
            /\ UNCHANGED audit
       ELSE /\ Goto(c, "login_persist",
                    [loc[c] EXCEPT !.at = now,
                                   !.twoFactorCode = generateTwoFactorCode(r),
                                   !.twoFactorExpiry = ExpiryFrom(now)])
            /\ audit' = [audit EXCEPT !.passwordOk = @ \cup {loc[c].user[1].id},
                                      !.passwordBy = @ \cup {<<c, loc[c].user[1].id>>}]
            /\ UNCHANGED users
    /\ UNCHANGED <<sess, now>>
    /\ sms' = NoSms
    /\ UNCHANGED tables

\* the strategy's verdict; on success the code and its expiry are drawn
LoginCheck(c, r) ==
    /\ pc[c] = "login_check"
    /\ IF ~ CredentialsValid(loc[c].user, loc[c].password)
       THEN /\ Reply(c, Response(c, "login", 401, DenialMessage(loc[c].user), NoUser, FALSE))
            /\ UNCHANGED audit
       ELSE /\ Goto(c, "login_persist",
                    [loc[c] EXCEPT !.at = now,
                                   !.twoFactorCode = generateTwoFactorCode(r),
                                   !.twoFactorExpiry = ExpiryFrom(now)])
            /\ audit' = [audit EXCEPT !.passwordOk = @ \cup {loc[c].user[1].id},
                                      !.passwordBy = @ \cup {<<c, loc[c].user[1].id>>}]
    /\ UNCHANGED <<users, sess, now>>
    /\ sms' = NoSms
    /\ UNCHANGED tables

\* variant: the handler goes on without the update having been applied
LoginPersistNotAwaited(c) ==
    /\ pc[c] = "login_persist"
    /\ users' = users
    /\ audit' = [audit EXCEPT !.consumed = {p \in @ : p[1] # loc[c].user[1].id}]
    /\ Goto(c, "login_sms", loc[c])
    /\ UNCHANGED <<sess, now>>
    /\ sms' = NoSms
    /\ UNCHANGED tables

\* storage.updateUser(user.id, {twoFactorCode, twoFactorExpiry}) takes effect
LoginPersist(c) ==
    /\ pc[c] = "login_persist"
    /\ users' = updateUser(loc[c].user[1].id, loc[c].twoFactorCode, loc[c].twoFactorExpiry)
    /\ audit' = [audit EXCEPT !.consumed = {p \in @ : p[1] # loc[c].user[1].id}]
    /\ Goto(c, "login_sms", loc[c])
    /\ UNCHANGED <<sess, now>>
    /\ sms' = NoSms
    /\ UNCHANGED tables

\* variant: a message the gateway did not accept fails the login
LoginSendFailsOnError(c, result) ==
    /\ pc[c] = "login_sms"
    /\ sms' = IF GatewayAccepted(result)
              THEN [phone |-> loc[c].user[1].phone, code |-> loc[c].twoFactorCode]
              ELSE NoSms
    /\ IF GatewayAccepted(result)
       THEN Goto(c, "login_respond", [loc[c] EXCEPT !.smsReturned = TRUE,
                                                    !.smsSuccess = TRUE])
       ELSE Reply(c, Response(c, "login", 500, MsgNone, NoUser, FALSE))
    /\ UNCHANGED <<users, sess, now, audit>>
    /\ UNCHANGED tables

\* netgsmService.send2FA(user.phone, twoFactorCode): the gateway answers, or the call
\* fails and sendSMS catches the error and returns false
LoginSend(c, result) ==
    /\ pc[c] = "login_sms"
    /\ sms' = IF GatewayAccepted(result)
              THEN [phone |-> loc[c].user[1].phone, code |-> loc[c].twoFactorCode]
              ELSE NoSms
    /\ Goto(c, "login_respond", [loc[c] EXCEPT !.smsReturned = TRUE,
                                               !.smsSuccess = GatewayAccepted(result)])
    /\ UNCHANGED <<users, sess, now, audit>>
    /\ UNCHANGED tables

\* variant: the handler logs the user in as soon as the password has been checked
LoginRespondLogsIn(c) ==
    /\ pc[c] = "login_respond"
    /\ sess' = [sess EXCEPT ![c] = loc[c].user[1].id]
    /\ Reply(c, Response(c, "login", 200, MsgCodeSent, loc[c].user[1].id, TRUE))
    /\ audit' = [audit EXCEPT !.loggedOut = @ \ {c}]
    /\ UNCHANGED <<users, now>>
    /\ sms' = NoSms
    /\ UNCHANGED tables

\* res.json({message, requiresTwoFactor: true, userId})
LoginRespond(c) ==
    /\ pc[c] = "login_respond"
    /\ Reply(c, Response(c, "login", 200, MsgCodeSent, loc[c].user[1].id, TRUE))
    /\ UNCHANGED <<users, sess, now, audit>>
    /\ sms' = NoSms
    /\ UNCHANGED tables

-----------------------------------------------------------------------------
(* POST /api/verify-2fa *)

\* variant: the code stops being accepted at the expiry instant itself
VerifyFailureExpiresEarly(user, code, t) ==
    IF user = <<>> THEN MsgUserNotFound
    ELSE IF user[1].twoFactorCode = Null \/ user[1].twoFactorExpiry = NoTime
         THEN MsgNoPendingCode
    ELSE IF t >= user[1].twoFactorExpiry THEN MsgCodeExpired
    ELSE IF user[1].twoFactorCode # code THEN MsgCodeWrong
    ELSE MsgNone

\* variant: the code is compared before the expiry is looked at
VerifyFailureCodeFirst(user, code, t) ==
    IF user = <<>> THEN MsgUserNotFound
    ELSE IF user[1].twoFactorCode = Null \/ user[1].twoFactorExpiry = NoTime
         THEN MsgNoPendingCode
    ELSE IF user[1].twoFactorCode # code THEN MsgCodeWrong
    ELSE IF t > user[1].twoFactorExpiry THEN MsgCodeExpired
    ELSE MsgNone

\* the checks on the row read, in the order of the handler; "" when all pass
VerifyFailure(user, code, t) ==
    IF user = <<>> THEN MsgUserNotFound
    ELSE IF user[1].twoFactorCode = Null \/ user[1].twoFactorExpiry = NoTime
         THEN MsgNoPendingCode
    ELSE IF t > user[1].twoFactorExpiry THEN MsgCodeExpired
    ELSE IF user[1].twoFactorCode # code THEN MsgCodeWrong
    ELSE MsgNone

VerifyStatus(message) == IF message = MsgUserNotFound THEN 404 ELSE 400

\* validation, then storage.getUser(userId)
VerifyBegin(c, userId, code) ==
    /\ pc[c] = "idle"
    /\ LET body == [NoLocals EXCEPT !.userId = userId, !.code = code]
       IN  IF userId = Missing \/ code = Missing
           THEN /\ out' = [Response(c, "verify", 400, MsgVerifyMissing, NoUser, FALSE)
                               EXCEPT !.req = body]
                /\ UNCHANGED <<pc, loc>>
           ELSE Goto(c, "verify_check",
                     [body EXCEPT !.user = getUser(userId),
                                  !.afterSuccess = <<userId, code>> \in audit.consumed])
    /\ UNCHANGED <<users, sess, now, audit>>
    /\ sms' = NoSms
    /\ UNCHANGED tables

\* variant: a wrong or expired code withdraws the pending code
VerifyCheckInvalidatesOnFailure(c) ==
    /\ pc[c] = "verify_check"
    /\ LET failure == VerifyFailure(loc[c].user, loc[c].code, now)
       IN  IF failure # MsgNone
           THEN /\ Reply(c, Response(c, "verify", VerifyStatus(failure), failure,
                                     NoUser, FALSE))
                /\ users' = IF failure \in {MsgCodeWrong, MsgCodeExpired}
                            THEN updateUser(loc[c].user[1].id, Null, NoTime)
                            ELSE users
                /\ UNCHANGED audit
           ELSE /\ Goto(c, "verify_clear", [loc[c] EXCEPT !.at = now])
                /\ audit' = [audit EXCEPT !.codeOk = @ \cup {loc[c].user[1].id}]
                /\ UNCHANGED users
    /\ UNCHANGED <<sess, now>>
    /\ sms' = NoSms
    /\ UNCHANGED tables

\* the checks against the row read, at the current time
VerifyCheck(c) ==
    /\ pc[c] = "verify_check"
    /\ LET failure == VerifyFailure(loc[c].user, loc[c].code, now)
       IN  IF failure # MsgNone
           THEN /\ Reply(c, Response(c, "verify", VerifyStatus(failure), failure,
                                     NoUser, FALSE))
                /\ UNCHANGED audit
           ELSE /\ Goto(c, "verify_clear", [loc[c] EXCEPT !.at = now])
                /\ audit' = [audit EXCEPT !.codeOk = @ \cup {loc[c].user[1].id}]
    /\ UNCHANGED <<users, sess, now>>
    /\ sms' = NoSms
    /\ UNCHANGED tables

\* variant: only the code is cleared, the expiry stays
VerifyClearCodeOnly(c) ==
    /\ pc[c] = "verify_clear"
    /\ users' = updateUser(loc[c].user[1].id, Null, loc[c].user[1].twoFactorExpiry)
    /\ audit' = [audit EXCEPT !.consumed = @ \cup {<<loc[c].user[1].id, loc[c].code>>}]
    /\ Goto(c, "verify_establish", loc[c])
    /\ UNCHANGED <<sess, now>>
    /\ sms' = NoSms
    /\ UNCHANGED tables

\* variant: the pending code is left in place after it has been accepted
VerifyClearSkipsUpdate(c) ==
    /\ pc[c] = "verify_clear"
    /\ users' = users
    /\ audit' = [audit EXCEPT !.consumed = @ \cup {<<loc[c].user[1].id, loc[c].code>>}]
    /\ Goto(c, "verify_establish", loc[c])
    /\ UNCHANGED <<sess, now>>
    /\ sms' = NoSms
    /\ UNCHANGED tables

\* storage.updateUser(user.id, {twoFactorCode: null, twoFactorExpiry: null}) takes effect
VerifyClear(c) ==
    /\ pc[c] = "verify_clear"
    /\ users' = updateUser(loc[c].user[1].id, Null, NoTime)
    /\ audit' = [audit EXCEPT !.consumed = @ \cup {<<loc[c].user[1].id, loc[c].code>>}]
    /\ Goto(c, "verify_establish", loc[c])
    /\ UNCHANGED <<sess, now>>
    /\ sms' = NoSms
    /\ UNCHANGED tables

\* req.login(user) and the 200 response
VerifyEstablish(c) ==
    /\ pc[c] = "verify_establish"
    /\ sess' = [sess EXCEPT ![c] = loc[c].user[1].id]
    /\ Reply(c, Response(c, "verify", 200, MsgNone, loc[c].user[1].id, FALSE))
    /\ audit' = [audit EXCEPT !.loggedOut = @ \ {c}]
    /\ UNCHANGED <<users, now>>
    /\ sms' = NoSms
    /\ UNCHANGED tables

-----------------------------------------------------------------------------
(* POST /api/logout, GET /api/user *)

\* req.isAuthenticated(): the session names a user and deserializeUser finds the row
IsAuthenticated(c) == sess[c] # NoUser /\ getUser(sess[c]) # <<>>

\* variant: the answer is sent without req.logout having ended the session
LogoutKeepsSession(c) ==
    /\ pc[c] = "idle"
    /\ sess' = sess
    /\ out' = Response(c, "logout", 200, MsgNone, NoUser, FALSE)
    /\ audit' = IF IsAuthenticated(c)
                THEN [audit EXCEPT !.loggedOut = @ \cup {c}]
                ELSE audit
    /\ UNCHANGED <<users, now, pc, loc>>
    /\ sms' = NoSms
    /\ UNCHANGED tables

\* req.logout(...) and the 200 response
Logout(c) ==
    /\ pc[c] = "idle"
    /\ sess' = [sess EXCEPT ![c] = NoUser]
    /\ out' = Response(c, "logout", 200, MsgNone, NoUser, FALSE)
    /\ audit' = IF IsAuthenticated(c)
                THEN [audit EXCEPT !.loggedOut = @ \cup {c}]
                ELSE audit
    /\ UNCHANGED <<users, now, pc, loc>>
    /\ sms' = NoSms
    /\ UNCHANGED tables

CurrentUser(c) ==
    /\ pc[c] = "idle"
    /\ out' = IF ~ IsAuthenticated(c)
              THEN Response(c, "user", 401, MsgNone, NoUser, FALSE)
              ELSE Response(c, "user", 200, MsgNone, getUser(sess[c])[1].id, FALSE)
    /\ UNCHANGED <<users, sess, now, pc, loc, audit>>
    /\ sms' = NoSms
    /\ UNCHANGED tables

-----------------------------------------------------------------------------
(* Personnel storage *)

PersonnelIds == {"p1", "p2", "p3"}
Branches == {"b1", "b2"}

\* WHERE is_active = true
getPersonnel == {personnel[p] : p \in {q \in DOMAIN personnel : personnel[q].isActive}}

\* WHERE branch_id = branchId AND is_active = true
getPersonnelByBranch(branchId) == {r \in getPersonnel : r.branchId = branchId}

\* db.select().from(personnel).where(eq(personnel.id, id)): <<row>> or <<>>
getPersonnelById(id) == IF id \in DOMAIN personnel THEN <<personnel[id]>> ELSE <<>>

\* LOWER(first_name || ' ' || last_name) LIKE LOWER('%' || query || '%'), for a query
\* that is a whole name
searchPersonnel(query) == {r \in getPersonnel : query \in {r.firstName, r.lastName}}

\* db.insert(personnel).values(insertPersonnel): is_active defaults to true
createPersonnel(id, body) ==
    [p \in DOMAIN personnel \cup {id} |->
        IF p = id
        THEN [id |-> id, firstName |-> body.firstName, lastName |-> body.lastName,
              branchId |-> body.branchId, isActive |-> TRUE]
        ELSE personnel[p]]

\* db.update(personnel).set({...updates, updatedAt}).where(eq(personnel.id, id)): the
\* columns named in updates are overwritten, the others kept
updatePersonnel(id, updates) ==
    IF id \in DOMAIN personnel
    THEN [personnel EXCEPT ![id] =
            [f \in DOMAIN @ |-> IF f \in DOMAIN updates THEN updates[f] ELSE @[f]]]
    ELSE personnel

-----------------------------------------------------------------------------
(* /api/personnel *)

\* req.user: the row deserializeUser loads for the session
RequestUser(c) == getUser(sess[c])[1]

\* req.user?.role === 'branch_admin'
IsBranchAdmin(c) == RequestUser(c).role = "branch_admin"

\* requireAuth turns the request away
Unauthenticated(c, op) == Response(c, op, 401, MsgLoginRequired, NoUser, FALSE)

\* the query strings of GET /api/personnel: <<branchId, search>>, either may be absent
PersonnelQueries == (Branches \cup {Missing}) \X {Missing, "kaya"}

\* the bodies of POST /api/personnel: a person for either branch, a body that
\* insertPersonnelSchema.parse rejects
PersonnelBodies ==
    {[firstName |-> "veli", lastName |-> "kaya", branchId |-> b] : b \in Branches}
    \cup {[firstName |-> Missing, lastName |-> "kaya", branchId |-> "b1"]}

\* the bodies of PUT /api/personnel/:id
PersonnelUpdates == {[branchId |-> "b2"], [lastName |-> "demir"], [isActive |-> FALSE]}

\* GET /api/personnel
PersonnelList(c, branchId, search) ==
    /\ pc[c] = "idle"
    /\ out' = IF ~ IsAuthenticated(c) THEN Unauthenticated(c, "personnel_list")
              ELSE [Response(c, "personnel_list", 200, MsgNone, RequestUser(c).id, FALSE)
                        EXCEPT !.rows =
                            IF search # Missing THEN searchPersonnel(search)
                            ELSE IF branchId # Missing THEN getPersonnelByBranch(branchId)
                            ELSE IF IsBranchAdmin(c) /\ RequestUser(c).branchId # Null
                                 THEN getPersonnelByBranch(RequestUser(c).branchId)
                                 ELSE getPersonnel]
    /\ UNCHANGED <<users, sess, now, pc, loc, audit, tables>>
    /\ sms' = NoSms

\* GET /api/personnel/:id
PersonnelGet(c, id) ==
    /\ pc[c] = "idle"
    /\ out' = IF ~ IsAuthenticated(c) THEN Unauthenticated(c, "personnel_get")
              ELSE IF getPersonnelById(id) = <<>>
              THEN Response(c, "personnel_get", 404, MsgPersonNotFound, RequestUser(c).id, FALSE)
              ELSE IF IsBranchAdmin(c)
                      /\ RequestUser(c).branchId # getPersonnelById(id)[1].branchId
              THEN Response(c, "personnel_get", 403, MsgPersonForbidden, RequestUser(c).id, FALSE)
              ELSE [Response(c, "personnel_get", 200, MsgNone, RequestUser(c).id, FALSE)
                        EXCEPT !.rows = {getPersonnelById(id)[1]}]
    /\ UNCHANGED <<users, sess, now, pc, loc, audit, tables>>
    /\ sms' = NoSms

\* POST /api/personnel; the table is capped at PersonnelIds
PersonnelCreate(c, body) ==
    /\ pc[c] = "idle"
    /\ PersonnelIds \ DOMAIN personnel # {}
    /\ LET id == CHOOSE p \in PersonnelIds : p \notin DOMAIN personnel
           answer(status, message) ==
               [Response(c, "personnel_create", status, message, RequestUser(c).id, FALSE)
                    EXCEPT !.req = [NoLocals EXCEPT !.updates = body]]
       IN  IF ~ IsAuthenticated(c)
           THEN /\ out' = Unauthenticated(c, "personnel_create")
                /\ UNCHANGED personnel
           ELSE IF Missing \in {body.firstName, body.lastName, body.branchId}
           THEN /\ out' = answer(400, MsgInvalidBody)
                /\ UNCHANGED personnel
           ELSE IF IsBranchAdmin(c) /\ RequestUser(c).branchId # body.branchId
           THEN /\ out' = answer(403, MsgOtherBranch)
                /\ UNCHANGED personnel
           ELSE /\ personnel' = createPersonnel(id, body)
                /\ out' = [answer(201, MsgNone) EXCEPT !.rows = {personnel'[id]}]
    /\ UNCHANGED <<users, sess, now, pc, loc, audit, attendance, balances>>
    /\ sms' = NoSms

\* PUT /api/personnel/:id: requireAuth, then storage.getPersonnelById(id)
PersonnelUpdateBegin(c, id, updates) ==
    /\ pc[c] = "idle"
    /\ IF ~ IsAuthenticated(c)
       THEN /\ out' = Unauthenticated(c, "personnel_update")
            /\ UNCHANGED <<pc, loc>>
       ELSE Goto(c, "personnel_update",
                 [NoLocals EXCEPT !.target = id, !.updates = updates,
                                  !.user = getUser(sess[c]),
                                  !.found = getPersonnelById(id)])
    /\ UNCHANGED <<users, sess, now, audit, tables>>
    /\ sms' = NoSms

\* the checks on the row read, then storage.updatePersonnel(id, req.body)
PersonnelUpdateApply(c) ==
    /\ pc[c] = "personnel_update"
    /\ IF loc[c].found = <<>>
       THEN /\ Reply(c, Response(c, "personnel_update", 404, MsgPersonNotFound,
                                 Row(loc[c]).id, FALSE))
            /\ UNCHANGED personnel
       ELSE IF Row(loc[c]).role = "branch_admin"
               /\ Row(loc[c]).branchId # loc[c].found[1].branchId
       THEN /\ Reply(c, Response(c, "personnel_update", 403, MsgEditForbidden,
                                 Row(loc[c]).id, FALSE))
            /\ UNCHANGED personnel
       ELSE /\ personnel' = updatePersonnel(loc[c].target, loc[c].updates)
            /\ Reply(c, [Response(c, "personnel_update", 200, MsgNone, Row(loc[c]).id, FALSE)
                            EXCEPT !.rows = {personnel'[loc[c].target]}])
    /\ UNCHANGED <<users, sess, now, audit, attendance, balances>>
    /\ sms' = NoSms

-----------------------------------------------------------------------------
(* Attendance storage *)

AttendanceIds == {"t1", "t2"}

\* the columns of the attendance table
AttendanceColumns == {"id", "personnelId", "checkIn", "checkOut", "date", "notes"}

\* the timestamp columns among them, nullable except date
TimestampColumns == {"checkIn", "checkOut", "date"}

\* today.toISOString().split('T')[0] and DATE(attendance.date): the day of an instant
\* counted in five-minute units
Day(t) == t \div 288

\* row[name] in JavaScript for a timestamp: undefined (shown as NoTime, falsy like
\* null) when the object has no such property
TimeProp(row, name) == IF name \in DOMAIN row THEN row[name] ELSE NoTime

\* db.insert(attendance).values(data): the keys of data that are columns are
\* stored, the others are not part of the statement, an absent column is NULL
createAttendance(id, data) ==
    [t \in DOMAIN attendance \cup {id} |->
        IF t = id
        THEN [col \in AttendanceColumns |->
                IF col = "id" THEN id
                ELSE IF col \in DOMAIN data THEN data[col]
                ELSE IF col \in TimestampColumns THEN NoTime ELSE Null]
        ELSE attendance[t]]

\* db.update(attendance).set(updates).where(eq(attendance.id, id)): the keys of
\* updates that are columns are overwritten
updateAttendance(id, updates) ==
    IF id \in DOMAIN attendance
    THEN [attendance EXCEPT ![id] =
            [col \in DOMAIN @ |-> IF col \in DOMAIN updates THEN updates[col] ELSE @[col]]]
    ELSE attendance

\* WHERE personnel_id = personnelId AND DATE(date) = date: the rows that match
AttendanceOn(personnelId, date) ==
    {attendance[t] : t \in {i \in DOMAIN attendance :
                                /\ attendance[i].personnelId = personnelId
                                /\ Day(attendance[i].date) = date}}

-----------------------------------------------------------------------------
(* POST /api/qr-scan *)

ScanLabels == {"scan_today", "scan_write"}

\* the qrCode of a scan: absent, a person's id, an id no person has
QrCodes == {Missing, "p1", "p9"}

\* requireAuth, the qrCode check, then storage.getPersonnelById(personnelId)
ScanBegin(c, qrCode) ==
    /\ pc[c] = "idle"
    /\ LET body == [NoLocals EXCEPT !.target = qrCode]
       IN  IF ~ IsAuthenticated(c)
           THEN /\ out' = [Unauthenticated(c, "scan") EXCEPT !.req = body]
                /\ UNCHANGED <<pc, loc>>
           ELSE IF qrCode = Missing
           THEN /\ out' = [Response(c, "scan", 400, MsgQrMissing, NoUser, FALSE)
                               EXCEPT !.req = body]
                /\ UNCHANGED <<pc, loc>>
           ELSE Goto(c, "scan_today", [body EXCEPT !.found = getPersonnelById(qrCode)])
    /\ UNCHANGED <<users, sess, now, audit, tables>>
    /\ sms' = NoSms

\* the 404 for an unknown person; else today = new Date() and
\* storage.getAttendanceByPersonnelAndDate: the first of the matching rows, in
\* whatever order the database returns them
ScanToday(c) ==
    /\ pc[c] = "scan_today"
    /\ IF loc[c].found = <<>>
       THEN Reply(c, Response(c, "scan", 404, MsgQrUnknown, NoUser, FALSE))
       ELSE LET matching == AttendanceOn(loc[c].target, Day(now))
            IN  \/ /\ matching = {}
                   /\ Goto(c, "scan_write", [loc[c] EXCEPT !.at = now])
                \/ \E r \in matching :
                        Goto(c, "scan_write", [loc[c] EXCEPT !.at = now, !.record = <<r>>])
    /\ UNCHANGED <<users, sess, now, audit, tables>>
    /\ sms' = NoSms

\* the branch on the row read, the insert or the update, and the answer; the table
\* is capped at AttendanceIds
ScanWrite(c) ==
    /\ pc[c] = "scan_write"
    /\ LET today == loc[c].at
           existingAttendance == loc[c].record
       IN  IF existingAttendance = <<>>
           THEN /\ AttendanceIds \ DOMAIN attendance # {}
                /\ attendance' =
                        createAttendance(CHOOSE t \in AttendanceIds : t \notin DOMAIN attendance,
                                         [personnelId |-> loc[c].target, date |-> today,
                                          checkInTime |-> today, notes |-> "QR kod ile giris"])
                /\ Reply(c, [Response(c, "scan", 200, MsgNone, NoUser, FALSE)
                                EXCEPT !.action = "check-in"])
           ELSE IF TimeProp(existingAttendance[1], "checkInTime") # NoTime
                   /\ TimeProp(existingAttendance[1], "checkOutTime") = NoTime
           THEN /\ attendance' =
                        updateAttendance(existingAttendance[1].id,
                                         [col \in DOMAIN existingAttendance[1] \cup {"checkOutTime"} |->
                                            IF col = "checkOutTime" THEN today
                                            ELSE existingAttendance[1][col]])
                /\ Reply(c, [Response(c, "scan", 200, MsgNone, NoUser, FALSE)
                                EXCEPT !.action = "check-out"])
           ELSE /\ attendance' = attendance
                /\ Reply(c, Response(c, "scan", 400, MsgScanComplete, NoUser, FALSE))
    /\ UNCHANGED <<users, sess, now, audit, personnel, balances>>
    /\ sms' = NoSms

-----------------------------------------------------------------------------
(* Leave balance storage; the callers are the connections *)

BalanceIds == {"l1", "l2"}

\* the balances passed to createOrUpdatePersonnelLeaveBalance: one key, several day counts
BalanceInputs ==
    {[personnelId |-> "p1", leaveType |-> "yillik", year |-> 2025,
      totalDays |-> days[1], usedDays |-> days[2]] : days \in {<<14, 0>>, <<20, 5>>}}

\* the updates passed to updatePersonnelLeaveBalance
BalanceUpdates == {[totalDays |-> 20], [usedDays |-> 5], [remainingDays |-> 7]}

\* WHERE personnel_id = ... AND leave_type = ... AND year = ...: the ids that match
BalancesOf(balance) ==
    {l \in DOMAIN balances :
        /\ balances[l].personnelId = balance.personnelId
        /\ balances[l].leaveType = balance.leaveType
        /\ balances[l].year = balance.year}

\* {...balance, remainingDays: balance.totalDays - balance.usedDays}
WithRemaining(balance) ==
    [f \in DOMAIN balance \cup {"remainingDays"} |->
        IF f = "remainingDays" THEN balance.totalDays - balance.usedDays ELSE balance[f]]

\* db.update(personnelLeaveBalances).set(updates).where(eq(personnelLeaveBalances.id, id))
setBalance(id, updates) ==
    IF id \in DOMAIN balances
    THEN [balances EXCEPT ![id] =
            [f \in DOMAIN @ |-> IF f \in DOMAIN updates THEN updates[f] ELSE @[f]]]
    ELSE balances

\* createOrUpdatePersonnelLeaveBalance(balance): the select of the existing row, the
\* first of the matching rows in whatever order the database returns them
BalanceUpsertBegin(c, balance) ==
    /\ pc[c] = "idle"
    /\ \/ /\ BalancesOf(balance) = {}
          /\ Goto(c, "balance_upsert", [NoLocals EXCEPT !.updates = balance])
       \/ \E l \in BalancesOf(balance) :
            Goto(c, "balance_upsert",
                 [NoLocals EXCEPT !.updates = balance, !.found = <<balances[l]>>])
    /\ UNCHANGED <<users, sess, now, audit, tables>>
    /\ sms' = NoSms

\* the update of the row found, or the insert of a new row.  The definition of the
\* table is not among the sources: whether it declares the key unique is open, so an
\* insert that duplicates a key is either stored or refused.  The table is capped at
\* BalanceIds.
BalanceUpsertApply(c, keyUnique) ==
    /\ pc[c] = "balance_upsert"
    /\ IF loc[c].found # <<>>
       THEN balances' = setBalance(loc[c].found[1].id, WithRemaining(loc[c].updates))
       ELSE IF keyUnique /\ BalancesOf(loc[c].updates) # {}
       THEN balances' = balances
       ELSE /\ BalanceIds \ DOMAIN balances # {}
            /\ LET id == CHOOSE l \in BalanceIds : l \notin DOMAIN balances
                   row == WithRemaining(loc[c].updates)
               IN  balances' =
                        [l \in DOMAIN balances \cup {id} |->
                            IF l = id
                            THEN [f \in DOMAIN row \cup {"id"} |->
                                    IF f = "id" THEN id ELSE row[f]]
                            ELSE balances[l]]
    /\ Goto(c, "idle", NoLocals)
    /\ UNCHANGED <<users, sess, now, audit, personnel, attendance>>
    /\ sms' = NoSms

\* updatePersonnelLeaveBalance(id, updates): updateData, with remainingDays
\* recalculated from the current row when totalDays or usedDays is among the updates
BalanceUpdateBegin(c, id, updates) ==
    /\ pc[c] = "idle"
    /\ LET current == IF id \in DOMAIN balances THEN <<balances[id]>> ELSE <<>>
           totalDays == IF "totalDays" \in DOMAIN updates
                        THEN updates.totalDays ELSE current[1].totalDays
           usedDays == IF "usedDays" \in DOMAIN updates
                       THEN updates.usedDays ELSE current[1].usedDays
           updateData ==
               IF ("totalDays" \in DOMAIN updates \/ "usedDays" \in DOMAIN updates)
                  /\ current # <<>>
               THEN [f \in DOMAIN updates \cup {"remainingDays"} |->
                        IF f = "remainingDays" THEN totalDays - usedDays ELSE updates[f]]
               ELSE updates
       IN  Goto(c, "balance_update", [NoLocals EXCEPT !.target = id, !.updates = updateData])
    /\ UNCHANGED <<users, sess, now, audit, tables>>
    /\ sms' = NoSms

\* db.update(personnelLeaveBalances).set(updateData).where(eq(id)) takes effect
BalanceUpdateApply(c) ==
    /\ pc[c] = "balance_update"
    /\ balances' = setBalance(loc[c].target, loc[c].updates)
    /\ Goto(c, "idle", NoLocals)
    /\ UNCHANGED <<users, sess, now, audit, personnel, attendance>>
    /\ sms' = NoSms

-----------------------------------------------------------------------------

\* a request arrives on connection c
Begin(c) ==
    \/ \E body \in RegisterBodies : RegisterBegin(c, body[1], body[2], body[3])
    \/ \E phone \in Phones, password \in Passwords : LoginBegin(c, phone, password)
    \/ \E body \in VerifyBodies : VerifyBegin(c, body[1], body[2])
    \/ Logout(c)
    \/ CurrentUser(c)

\* the handler in flight on connection c takes its next step
Step(c) ==
    \/ \E salt \in Salts : RegisterCreate(c, salt)
    \/ RegisterEstablish(c)
    \/ \E r \in RandomDraws : LoginCheck(c, r)
    \/ LoginPersist(c)
    \/ \E result \in GatewayResults : LoginSend(c, result)
    \/ LoginRespond(c)
    \/ VerifyCheck(c)
    \/ VerifyClear(c)
    \/ VerifyEstablish(c)

\* the connections that issue requests
Browsers == {"a"}

Next ==
    \/ Tick
    \/ \E c \in Browsers : Begin(c)
    \/ \E c \in Browsers : Step(c)

Spec == Init /\ [][Next]_vars

-----------------------------------------------------------------------------
(* Two connections served concurrently *)

\* the requests of the racing connections: a registration of a taken or a free phone number,
\* a login of the active user with the right password, a verification for that user
BeginConcurrent(c) ==
    \/ \E phone \in {"5551", "5553"} : RegisterBegin(c, phone, "pw2", "Test User")
    \/ LoginBegin(c, "5551", "pw1")
    \/ \E code \in SubmittedCodes : VerifyBegin(c, "u1", code)

NextConcurrent ==
    \/ \E c \in Conns : BeginConcurrent(c)
    \/ \E c \in Conns : Step(c)

SpecConcurrent == Init /\ [][NextConcurrent]_vars

-----------------------------------------------------------------------------
(* Users soft-disabled while the server runs *)

\* is_active of user u is set to false in the database
Deactivate(u) ==
    /\ u \in DOMAIN users
    /\ users[u].isActive
    /\ users' = [users EXCEPT ![u].isActive = FALSE]
    /\ out' = NoResponse
    /\ UNCHANGED <<sess, now, pc, loc, audit>>
    /\ sms' = NoSms
    /\ UNCHANGED tables

NextDeactivate ==
    \/ Next
    \/ \E u \in Ids : Deactivate(u)

SpecDeactivate == Init /\ [][NextDeactivate]_vars

-----------------------------------------------------------------------------
(* The code generator over a finer grid of draws *)

\* Math.random() on grids of sixteenths and sevenths, and draws next to both ends of [0, 1)
FineDraws ==
    {<<k, 16>> : k \in 0..15} \cup {<<k, 7>> : k \in 0..6} \cup
    {<<1, 900000>>, <<1, 900001>>, <<899999, 900000>>}

\* logins of the active user, each drawing its code from the finer grid
NextDraw ==
    \E c \in Browsers :
        \/ LoginBegin(c, "5551", "pw1")
        \/ \E r \in FineDraws : LoginCheck(c, r)
        \/ LoginPersist(c)
        \/ \E result \in GatewayResults : LoginSend(c, result)
        \/ LoginRespond(c)

SpecDraw == Init /\ [][NextDraw]_vars

-----------------------------------------------------------------------------
(* A branch admin working on the personnel table *)

\* the seeded branch admin logs in and verifies, a new user registers, and the
\* connection issues personnel requests
BeginPersonnel(c) ==
    \/ RegisterBegin(c, "5553", "pw2", "Test User")
    \/ LoginBegin(c, "5551", "pw1")
    \/ \E code \in SubmittedCodes : VerifyBegin(c, "u1", code)
    \/ Logout(c)
    \/ \E q \in PersonnelQueries : PersonnelList(c, q[1], q[2])
    \/ \E id \in PersonnelIds : PersonnelGet(c, id)
    \/ \E body \in PersonnelBodies : PersonnelCreate(c, body)
    \/ \E id \in PersonnelIds, updates \in PersonnelUpdates : PersonnelUpdateBegin(c, id, updates)

NextPersonnel ==
    \/ \E c \in Browsers : BeginPersonnel(c)
    \/ \E c \in Browsers : Step(c)
    \/ \E c \in Browsers : PersonnelUpdateApply(c)

SpecPersonnel == Init /\ [][NextPersonnel]_vars

-----------------------------------------------------------------------------
(* Two signed-in connections scanning QR codes *)

\* the phone number connection c registers with
ScanPhone(c) == IF c = "a" THEN "5553" ELSE "5554"

NextScan ==
    \E c \in Conns :
        \/ RegisterBegin(c, ScanPhone(c), "pw2", "Test User")
        \/ \E salt \in Salts : RegisterCreate(c, salt)
        \/ RegisterEstablish(c)
        \/ \E qrCode \in QrCodes : ScanBegin(c, qrCode)
        \/ ScanToday(c)
        \/ ScanWrite(c)

SpecScan == Init /\ [][NextScan]_vars

-----------------------------------------------------------------------------
(* Two callers of the leave balance storage *)

NextBalance ==
    \E c \in Conns :
        \/ \E balance \in BalanceInputs : BalanceUpsertBegin(c, balance)
        \/ \E keyUnique \in BOOLEAN : BalanceUpsertApply(c, keyUnique)
        \/ \E id \in BalanceIds, updates \in BalanceUpdates : BalanceUpdateBegin(c, id, updates)
        \/ BalanceUpdateApply(c)

SpecBalance == Init /\ [][NextBalance]_vars

-----------------------------------------------------------------------------
(* Properties *)

LoginLabels == {"login_check", "login_persist", "login_sms", "login_respond"}

\* the credentials are those of an active user u
Legitimate(u, phone, password) ==
    /\ u \in DOMAIN users
    /\ users[u].phone = phone
    /\ users[u].isActive
    /\ <<u, password>> \in audit.secret

\* C1 as stated: in every reachable state a session authenticated as user U exists
\* only if a password check for U and a two-factor code check for U have both
\* succeeded before; this fails for the session that /api/register opens.
SessionOnlyAfterBothChecks ==
    \A c \in Conns :
        sess[c] # NoUser => sess[c] \in audit.passwordOk /\ sess[c] \in audit.codeOk

\* C1, amended: in every reachable state a session authenticated as user U exists
\* only if U was created by a /api/register on that connection, or a password check
\* for U and a two-factor code check for U have both succeeded before; a password
\* check alone never opens a session.
SessionAfterBothChecksOrRegistration ==
    \A c \in Conns :
        sess[c] # NoUser =>
            \/ <<c, sess[c]>> \in audit.registered
            \/ sess[c] \in audit.passwordOk /\ sess[c] \in audit.codeOk

\* a session opened by verification, for a user nobody registered in this run
SessionByTwoFactorReached ==
    \E c \in Conns :
        /\ sess[c] = "u1"
        /\ "u1" \in audit.passwordOk /\ "u1" \in audit.codeOk
        /\ <<c, "u1">> \notin audit.registered

\* C2: for an active user and the correct password, /api/login answers 200 with
\* requiresTwoFactor = true and that user's id, and no step of the login handler
\* changes the session of the connection.
LoginAlwaysRequiresTwoFactor ==
    /\ [](\A u \in Ids :
            out.op = "login" /\ Legitimate(u, out.req.phone, out.req.password) =>
                out.status = 200 /\ out.requiresTwoFactor /\ out.userId = u)
    /\ [][\A c \in Conns :
            pc[c] \in LoginLabels \/ pc'[c] \in LoginLabels => sess'[c] = sess[c]]_vars

\* a login with valid credentials answered on a connection that has no session
LoginAnsweredUnauthenticated ==
    /\ out.op = "login" /\ out.status = 200
    /\ Legitimate(out.userId, out.req.phone, out.req.password)
    /\ sess[out.conn] = NoUser

\* C3: a verification that repeats a code already verified successfully for that
\* user, with no login for the user since, is answered 400 "no pending code" and
\* does not pass the checks.
SecondVerifyFails ==
    /\ \A c \in Conns :
        pc[c] \in {"verify_clear", "verify_establish"} => ~ loc[c].afterSuccess
    /\ out.op = "verify" /\ out.req.afterSuccess =>
            out.status = 400 /\ out.message = MsgNoPendingCode

\* the second verification with the same code has been answered
SecondVerifyAnswered ==
    /\ out.op = "verify" /\ out.req.afterSuccess
    /\ out.req.code \in GeneratedCodes
    /\ sess[out.conn] = out.req.userId

\* the row of the request's user, as the handler read it

\* the pending login of user u is the one the row read shows
Pending(row) == row.twoFactorCode # Null /\ row.twoFactorExpiry # NoTime

\* C4 as stated: once a later login for a user has been persisted, the code an
\* earlier login had stored for that user no longer verifies; this fails when the
\* later login draws the code that was already stored.
SecondLoginInvalidatesOldCode ==
    [][\A c \in Conns :
        pc[c] = "login_persist" /\ pc'[c] = "login_sms" =>
            LET u == Row(loc[c]).id
                old == users[u].twoFactorCode
            IN  old # Null => VerifyFailure(<<users'[u]>>, old, now) # MsgNone]_vars

\* C5: a code drawn at time T is stored with expiry T + 5 minutes; a verification
\* with the matching code is answered "expired" exactly when the time of the check
\* is strictly after that expiry, and passes exactly when it is not.
ExpiryIsFiveMinutesStrict ==
    /\ [](\A c \in Conns :
            /\ pc[c] \in {"login_persist", "login_sms", "login_respond"} =>
                    loc[c].twoFactorExpiry = loc[c].at + TwoFactorWindow
            /\ pc[c] \in {"verify_clear", "verify_establish"} =>
                    loc[c].at <= Row(loc[c]).twoFactorExpiry)
    /\ [](out.op = "verify" /\ out.status # 200 /\ out.req.user # <<>> =>
            (Pending(Row(out.req)) /\ Row(out.req).twoFactorCode = out.req.code =>
                out.status = 400 /\ out.message = MsgCodeExpired
                /\ now > Row(out.req).twoFactorExpiry))
    /\ [][\A c \in Conns :
            /\ pc[c] = "login_persist" /\ pc'[c] = "login_sms" =>
                LET u == Row(loc[c]).id
                IN  /\ users'[u].twoFactorCode = loc[c].twoFactorCode
                    /\ users'[u].twoFactorExpiry = loc[c].at + TwoFactorWindow
            /\ pc[c] = "verify_check" /\ pc'[c] # "verify_check"
               /\ loc[c].user # <<>> /\ Pending(Row(loc[c]))
               /\ Row(loc[c]).twoFactorCode = loc[c].code =>
                    /\ now > Row(loc[c]).twoFactorExpiry <=>
                            out'.status = 400 /\ out'.message = MsgCodeExpired
                    /\ now <= Row(loc[c]).twoFactorExpiry <=> pc'[c] = "verify_clear"]_vars

\* a matching code has been accepted at the very instant of its expiry
AcceptedAtExpiryInstant ==
    \E c \in Conns :
        /\ pc[c] = "verify_clear"
        /\ loc[c].at = Row(loc[c]).twoFactorExpiry
        /\ loc[c].code = Row(loc[c]).twoFactorCode

\* C6: a verification answered "incorrect" or "expired" leaves the users table and
\* the session as they were: the code stays pending and, after a wrong guess made
\* before the expiry, the stored code would still pass the checks.
FailedVerifyKeepsPendingCode ==
    [][\A c \in Conns :
        pc[c] = "verify_check" /\ out'.op = "verify"
        /\ out'.message \in {MsgCodeWrong, MsgCodeExpired} =>
            LET u == Row(loc[c]).id
            IN  /\ users' = users
                /\ sess' = sess
                /\ Pending(users'[u])
                /\ out'.message = MsgCodeWrong =>
                       VerifyFailure(<<users'[u]>>, users'[u].twoFactorCode, now) = MsgNone]_vars

\* a wrong guess has been answered while the code is pending and not expired
WrongGuessAnswered ==
    /\ out.op = "verify" /\ out.message = MsgCodeWrong
    /\ Pending(users[out.req.userId])
    /\ now <= users[out.req.userId].twoFactorExpiry

\* C7: when the session is about to be established both two-factor fields of the
\* user are already null; the session is then that of the user id verified, the
\* answer carries that id, no earlier step of the handler touches the session, and
\* GET /api/user answers with the id the session holds.
VerifyClearsThenAuthenticatesSameUser ==
    /\ [](\A c \in Conns :
            pc[c] = "verify_establish" =>
                /\ users[loc[c].userId].twoFactorCode = Null
                /\ users[loc[c].userId].twoFactorExpiry = NoTime)
    /\ [](out.op = "user" =>
            IF sess[out.conn] = NoUser
            THEN out.status = 401
            ELSE out.status = 200 /\ out.userId = sess[out.conn])
    /\ [][\A c \in Conns :
            /\ pc[c] \in {"verify_check", "verify_clear"} => sess'[c] = sess[c]
            /\ pc[c] = "verify_establish" /\ pc'[c] = "idle" =>
                /\ sess'[c] = loc[c].userId
                /\ out'.status = 200 /\ out'.userId = loc[c].userId]_vars

\* GET /api/user has answered with the id of a user who can only get a session
\* through verification
CurrentUserAfterVerify ==
    /\ out.op = "user" /\ out.status = 200 /\ out.userId = "u1"
    /\ "u1" \in audit.codeOk

\* the outcome the first failing check of the claimed order gives
FirstFailing(r, t) ==
    CASE r.userId = Missing \/ r.code = Missing -> <<400, MsgVerifyMissing>>
      [] r.userId # Missing /\ r.code # Missing /\ r.user = <<>> -> <<404, MsgUserNotFound>>
      [] r.userId # Missing /\ r.code # Missing /\ r.user # <<>> /\ ~ Pending(Row(r)) ->
            <<400, MsgNoPendingCode>>
      [] r.userId # Missing /\ r.code # Missing /\ r.user # <<>> /\ Pending(Row(r))
         /\ t > Row(r).twoFactorExpiry -> <<400, MsgCodeExpired>>
      [] r.userId # Missing /\ r.code # Missing /\ r.user # <<>> /\ Pending(Row(r))
         /\ t <= Row(r).twoFactorExpiry /\ Row(r).twoFactorCode # r.code ->
            <<400, MsgCodeWrong>>
      [] OTHER -> <<200, MsgNone>>

\* C8: every failing answer of /api/verify-2fa is the one of the first failing
\* check in the order missing field (400), unknown user (404), no pending code
\* (400), expired (400), incorrect (400); a request passes only when none fails;
\* a failing answer changes neither the users table nor the session.
VerifyChecksInOrder ==
    /\ [](out.op = "verify" /\ out.status # 200 =>
            <<out.status, out.message>> = FirstFailing(out.req, now))
    /\ [](\A c \in Conns :
            pc[c] \in {"verify_clear", "verify_establish"} =>
                FirstFailing(loc[c], loc[c].at) = <<200, MsgNone>>)
    /\ [][out'.op = "verify" /\ out'.status # 200 => users' = users /\ sess' = sess]_vars

\* a code that is both expired and wrong has been answered
ExpiredAndWrongAnswered ==
    /\ out.op = "verify" /\ out.req.user # <<>>
    /\ Pending(Row(out.req))
    /\ now > Row(out.req).twoFactorExpiry
    /\ Row(out.req).twoFactorCode # out.req.code

\* C9: /api/login answers 401, and never 200, whenever the phone belongs to no
\* user, the user is inactive, or the password is not the user's.
DeniedLoginIs401 ==
    out.op = "login" /\ (\A u \in Ids : ~ Legitimate(u, out.req.phone, out.req.password))
        => out.status = 401

\* the login of an inactive user with that user's password has been answered
InactiveLoginAnswered ==
    /\ out.op = "login"
    /\ \E u \in DOMAIN users :
        /\ users[u].phone = out.req.phone
        /\ ~ users[u].isActive
        /\ <<u, out.req.password>> \in audit.secret

\* C10: every denied /api/login carries the same status and the same message body,
\* whatever the users table holds for the phone number: unknown phone, inactive
\* user and wrong password cannot be told apart by the response.
DeniedLoginsIndistinguishable ==
    out.op = "login" /\ out.status # 200 =>
        /\ out.status = 401
        /\ out.message = MsgBadCredentials
        /\ out.userId = NoUser
        /\ ~ out.requiresTwoFactor

\* the login for a phone number no user has has been answered
UnknownPhoneLoginAnswered ==
    /\ out.op = "login" /\ out.status # 200
    /\ \A u \in DOMAIN users : users[u].phone # out.req.phone

\* C11 as stated: when two logins of the same user are in flight together, the row
\* ends up with the code and expiry of the update applied last, and the code the
\* earlier update wrote no longer verifies; the second part fails when both
\* handlers draw the same code.
ConcurrentLoginsLastWriterWins ==
    [][\A c, d \in Conns :
        /\ c # d
        /\ pc[c] = "login_persist" /\ pc'[c] = "login_sms"
        /\ pc[d] \in {"login_sms", "login_respond"}
        /\ Row(loc[d]).id = Row(loc[c]).id
        => LET id == Row(loc[c]).id
           IN  /\ users'[id].twoFactorCode = loc[c].twoFactorCode
               /\ users'[id].twoFactorExpiry = loc[c].twoFactorExpiry
               /\ VerifyFailure(<<users'[id]>>, loc[d].twoFactorCode, now') # MsgNone]_vars

\* C12: whatever the gateway call yields (accepted, rejected, network error) the
\* login handler goes on to its response without touching the users table or the
\* session, and every login with valid credentials is answered 200 with
\* requiresTwoFactor = true, the user's id, and the drawn code and expiry persisted.
SmsOutcomeDoesNotAffectLogin ==
    /\ [][\A c \in Conns :
            pc[c] = "login_sms" /\ pc'[c] # "login_sms" =>
                /\ pc'[c] = "login_respond"
                /\ out' = NoResponse
                /\ users' = users /\ sess' = sess]_vars
    /\ [](out.op = "login" /\ CredentialsValid(out.req.user, out.req.password) =>
            /\ out.status = 200 /\ out.requiresTwoFactor
            /\ out.userId = Row(out.req).id
            /\ users[out.userId].twoFactorCode = out.req.twoFactorCode
            /\ users[out.userId].twoFactorExpiry = out.req.twoFactorExpiry)

\* a login whose message the gateway did not accept has been answered 200
LoginAnsweredAfterFailedSms ==
    /\ out.op = "login" /\ out.status = 200
    /\ out.req.smsReturned /\ ~ out.req.smsSuccess

\* C13: a login handler is past the credential check only with valid credentials;
\* the gateway is invoked only with the code and expiry the row already holds, so
\* every message delivered carries the persisted code; the 200 response is sent
\* only after the gateway call has returned, which happens only at the last step.
LoginStepsInOrder ==
    /\ [](\A c \in Conns :
            pc[c] \in {"login_persist", "login_sms", "login_respond"} =>
                CredentialsValid(loc[c].user, loc[c].password))
    /\ [][\A c \in Conns :
            pc[c] = "login_sms" /\ pc'[c] # "login_sms" =>
                /\ users[Row(loc[c]).id].twoFactorCode = loc[c].twoFactorCode
                /\ users[Row(loc[c]).id].twoFactorExpiry = loc[c].twoFactorExpiry]_vars
    /\ [](sms # NoSms =>
            \E u \in DOMAIN users :
                users[u].phone = sms.phone /\ users[u].twoFactorCode = sms.code)
    /\ [](out.op = "login" /\ out.status = 200 => out.req.smsReturned)
    /\ [](\A c \in Conns : loc[c].smsReturned => pc[c] = "login_respond")

\* a message has just been delivered and its login is about to respond
SmsDeliveredBeforeResponse ==
    /\ sms # NoSms
    /\ \E c \in Conns : pc[c] = "login_respond" /\ loc[c].twoFactorCode = sms.code

\* C14 as stated: no session is authenticated as a user who is inactive; this fails
\* once a user is deactivated after a login or while holding a session.
NoSessionForInactiveUser ==
    \A c \in Conns : IsAuthenticated(c) => users[sess[c]].isActive

\* the value of a decimal digit, -1 for any other character
DigitValue(ch) ==
    CASE ch = "0" -> 0 [] ch = "1" -> 1 [] ch = "2" -> 2 [] ch = "3" -> 3
      [] ch = "4" -> 4 [] ch = "5" -> 5 [] ch = "6" -> 6 [] ch = "7" -> 7
      [] ch = "8" -> 8 [] ch = "9" -> 9 [] OTHER -> -1

\* the string s consists of decimal digits
IsDecimal(s) == \A i \in 1..Len(s) : DigitValue(SubSeq(s, i, i)) >= 0

RECURSIVE DecimalValue(_)
\* the integer a string of decimal digits denotes
DecimalValue(s) ==
    IF Len(s) = 0 THEN 0
    ELSE 10 * DecimalValue(SubSeq(s, 1, Len(s) - 1)) + DigitValue(SubSeq(s, Len(s), Len(s)))

\* C15: every code drawn is a string of exactly six decimal digits whose value n
\* satisfies 100000 <= n <= 999999.
CodeIsSixDigits ==
    \A c \in Conns :
        loc[c].twoFactorCode # Null =>
            /\ Len(loc[c].twoFactorCode) = 6
            /\ IsDecimal(loc[c].twoFactorCode)
            /\ DecimalValue(loc[c].twoFactorCode) >= 100000
            /\ DecimalValue(loc[c].twoFactorCode) <= 999999

\* the draws next to both ends of [0, 1) have produced the extreme codes
ExtremeCodesDrawn ==
    /\ users["u1"].twoFactorCode = "100000"
    /\ \E c \in Conns : pc[c] = "login_persist" /\ loc[c].twoFactorCode = "999999"

\* C16: from a logout of an authenticated session until a verification or a
\* registration succeeds on the connection, the session is not authenticated and
\* GET /api/user is answered 401.
LoggedOutStaysUnauthenticated ==
    /\ \A c \in audit.loggedOut : ~ IsAuthenticated(c)
    /\ out.op = "user" /\ out.conn \in audit.loggedOut => out.status = 401

\* GET /api/user has been answered on a connection that logged out, with a login
\* but no verification since
CurrentUserAfterLogout ==
    /\ out.op = "user" /\ out.status = 401
    /\ out.conn \in audit.loggedOut
    /\ users["u1"].twoFactorCode # Null

\* C17 as stated: /api/register answers 400 and creates no user when a field is
\* missing or the phone is taken, and otherwise 201 with the id of the one active
\* user it created; of two concurrent registrations of one phone number the loser
\* is answered 400.  The loser is answered 500.
RegisterAnswersCreatedOrRejected ==
    out.op = "register" =>
        \/ /\ out.status = 400 /\ out.userId = NoUser
           /\ \/ Missing \in {out.req.phone, out.req.password, out.req.name}
              \/ \E u \in DOMAIN users : users[u].phone = out.req.phone
        \/ /\ out.status = 201
           /\ out.userId \in DOMAIN users
           /\ users[out.userId].phone = out.req.phone
           /\ users[out.userId].isActive
           /\ <<out.conn, out.userId>> \in audit.registered

\* C18: no two rows of the users table hold the same phone number.
PhonesUnique ==
    \A u, v \in DOMAIN users : u # v => users[u].phone # users[v].phone

\* two registrations of one phone number both passed the duplicate check, and the
\* insert of the second has been refused
RacingRegistrationRefused ==
    /\ out.op = "register" /\ out.status = 500
    /\ out.req.user = <<>>
    /\ \E u \in DOMAIN users : users[u].phone = out.req.phone

\* C19: the last step of a successful registration puts the created user in the
\* session of the connection and answers 201 with the user's id, while no code is
\* stored for that user, none has been checked and no message is sent; GET /api/user
\* on a session opened by a registration returns that user's id.
RegisterAuthenticatesWithoutCode ==
    /\ [][\A c \in Conns :
            pc[c] = "register_establish" /\ pc'[c] = "idle" =>
                LET id == Row(loc[c]).id
                IN  /\ sess'[c] = id
                    /\ out'.op = "register" /\ out'.status = 201 /\ out'.userId = id
                    /\ users'[id].twoFactorCode = Null
                    /\ users'[id].twoFactorExpiry = NoTime
                    /\ id \notin audit'.passwordOk /\ id \notin audit'.codeOk
                    /\ sms' = NoSms]_vars
    /\ [](\A c \in Conns :
            pc[c] \in {"register_create", "register_establish"} => sms = NoSms)
    /\ [](out.op = "user" /\ <<out.conn, sess[out.conn]>> \in audit.registered =>
            out.status = 200 /\ out.userId = sess[out.conn])

\* GET /api/user has returned the id of the user the connection registered, for
\* whom no code was ever checked
CurrentUserAfterRegister ==
    /\ out.op = "user" /\ out.status = 200
    /\ <<out.conn, out.userId>> \in audit.registered
    /\ out.userId \notin audit.codeOk
    /\ users[out.userId].twoFactorCode = Null

\* C23 as stated: a connection holds a session for user U only if the password check
\* for U was passed on that same connection (or U was registered on it); this fails
\* because /api/verify-2fa accepts the user id and the code from any connection.
SessionOnlyForPasswordHolder ==
    \A c \in Conns :
        sess[c] # NoUser =>
            <<c, sess[c]>> \in audit.passwordBy \/ <<c, sess[c]>> \in audit.registered

\* C24 as stated: a verification is admitted only if no other verification has been
\* admitted on the same code of the same user since the code was issued; this fails
\* when two verifications read the row before either clears it.
OneSessionPerIssuedCode ==
    [][\A c \in Conns :
        pc[c] = "verify_clear" /\ pc'[c] = "verify_establish" =>
            <<Row(loc[c]).id, loc[c].code>> \notin audit.consumed]_vars

\* C25 as stated: when a login delivers its message while no other request is in
\* flight and a code is pending for the user, the delivered code is the stored one;
\* this fails when the login whose update came first sends its message last.
LastSmsCarriesStoredCode ==
    [][\A c \in Conns :
        /\ pc[c] = "login_sms" /\ pc'[c] = "login_respond"
        /\ sms' # NoSms
        /\ \A d \in Conns \ {c} : pc[d] = "idle"
        /\ Pending(users'[Row(loc[c]).id])
        => users'[Row(loc[c]).id].twoFactorCode = sms'.code]_vars

\* C26: in every reachable state, under every interleaving of registrations, logins
\* and verifications, each user's twoFactorCode and twoFactorExpiry are both null or
\* both set.
CodeAndExpirySetTogether ==
    \A u \in DOMAIN users :
        (users[u].twoFactorCode = Null) <=> (users[u].twoFactorExpiry = NoTime)

\* a code has been issued and cleared again, another is pending, a user was registered
IssuedClearedAndRegistered ==
    /\ "u1" \in audit.codeOk
    /\ Pending(users["u1"])
    /\ \E u \in DOMAIN users : ~ Pending(users[u]) /\ \E c \in Conns : <<c, u>> \in audit.registered

\* C27: neither step of a denied /api/login changes the users table or any session or
\* delivers a message, so a code that was pending before the attempt passes the
\* verification checks after it exactly as before.
DeniedLoginChangesNothing ==
    [][\A c \in Conns :
        \/ pc[c] = "idle" /\ pc'[c] = "login_check"
        \/ pc[c] = "login_check" /\ out'.op = "login" /\ out'.status = 401
        => /\ users' = users /\ sess' = sess /\ sms' = NoSms
           /\ \A u \in DOMAIN users, code \in SubmittedCodes :
                VerifyFailure(<<users'[u]>>, code, now') = VerifyFailure(<<users[u]>>, code, now)]_vars

\* a login of the active user with a wrong password has been denied while a code is
\* pending for that user, and the code still passes
DeniedLoginWithCodePending ==
    /\ out.op = "login" /\ out.status = 401
    /\ out.req.phone = "5551"
    /\ Pending(users["u1"])
    /\ VerifyFailure(<<users["u1"]>>, users["u1"].twoFactorCode, now) = MsgNone

\* user u is a branch admin with an assigned branch
AssignedBranchAdmin(u) ==
    /\ u \in DOMAIN users
    /\ users[u].role = "branch_admin"
    /\ users[u].branchId # Null

\* C21 as stated: every personnel record in a 200 answer to GET /api/personnel or
\* GET /api/personnel/:id issued by a branch admin belongs to the admin's branch; this
\* fails for the branchId and search query parameters.
BranchAdminSeesOwnBranchOnly ==
    out.op \in {"personnel_list", "personnel_get"} /\ out.status = 200
    /\ AssignedBranchAdmin(out.userId)
        => \A r \in out.rows : r.branchId = users[out.userId].branchId

\* C22 as stated: a POST or PUT by a branch admin creates or modifies only records
\* whose branchId is the admin's branch before and after the request, and a 403
\* answer changes nothing; this fails for a PUT body that names another branch.
BranchAdminEditsOwnBranchOnly ==
    [][out'.op \in {"personnel_create", "personnel_update"}
       /\ AssignedBranchAdmin(out'.userId)
       => /\ \A p \in DOMAIN personnel' :
                (p \notin DOMAIN personnel \/ personnel'[p] # personnel[p]) =>
                    /\ personnel'[p].branchId = users[out'.userId].branchId
                    /\ p \in DOMAIN personnel =>
                            personnel[p].branchId = users[out'.userId].branchId
          /\ out'.status = 403 => personnel' = personnel]_vars

\* C28 as stated: with no other scan in flight, a scan that finds no record of the
\* person for today creates one with check-in set and check-out unset and answers
\* "check-in"; one that finds check-in set and check-out unset sets check-out and
\* answers "check-out"; any other answers 400 and changes nothing; and no record
\* ever has a check-out without a check-in.  This fails at the first scan: the
\* record it creates has no check-in time, so the next scan is answered 400.
ScansFollowCheckInCheckOut ==
    /\ [][\A c \in Conns :
            /\ pc[c] = "scan_write" /\ pc'[c] = "idle"
            /\ \A d \in Conns \ {c} : pc[d] \notin ScanLabels
            => LET before == AttendanceOn(loc[c].target, Day(loc[c].at))
                   after == {attendance'[t] : t \in {i \in DOMAIN attendance' :
                                /\ attendance'[i].personnelId = loc[c].target
                                /\ Day(attendance'[i].date) = Day(loc[c].at)}}
               IN  IF before = {}
                   THEN /\ out'.status = 200 /\ out'.action = "check-in"
                        /\ Cardinality(after) = 1
                        /\ \A r \in after : r.checkIn # NoTime /\ r.checkOut = NoTime
                   ELSE IF \E r \in before : r.checkIn # NoTime /\ r.checkOut = NoTime
                   THEN /\ out'.status = 200 /\ out'.action = "check-out"
                        /\ \A r \in after : r.checkIn # NoTime /\ r.checkOut # NoTime
                   ELSE out'.status = 400 /\ attendance' = attendance]_vars
    /\ [](\A t \in DOMAIN attendance :
            attendance[t].checkOut # NoTime => attendance[t].checkIn # NoTime)

\* C29 as stated: the attendance table never holds two records of one person for one
\* day; this fails when two scans read the table before either inserts.
OneAttendancePerPersonAndDay ==
    \A t, u \in DOMAIN attendance :
        t # u => ~ /\ attendance[t].personnelId = attendance[u].personnelId
                   /\ Day(attendance[t].date) = Day(attendance[u].date)

\* C30 as stated: every stored leave balance has remainingDays = totalDays - usedDays
\* and no two balances share personnelId, leaveType and year; the first part fails
\* for an update that names remainingDays alone.
BalancesConsistent ==
    /\ \A l \in DOMAIN balances :
            balances[l].remainingDays = balances[l].totalDays - balances[l].usedDays
    /\ \A l, m \in DOMAIN balances :
            l # m => ~ /\ balances[l].personnelId = balances[m].personnelId
                       /\ balances[l].leaveType = balances[m].leaveType
                       /\ balances[l].year = balances[m].year

====
